---- MODULE Spec2Model ----
(***************************************************************************)
(* react-sprout: the route-config compiler (utilities/config.js) and the   *)
(* loader scheduling of a navigation (utilities/loaders.js).               *)
(***************************************************************************)
EXTENDS Integers, Sequences, FiniteSets, TLC

VARIABLES
    elements,     \* the raw route tree: element id -> element (type + props)
    rootElement,  \* id of the root element handed to createConfig, 0 = undefined
    DEV,          \* import.meta.env.DEV of the build
    pc,           \* "ready" before createConfig has run, "done" after
    compiled,     \* what createConfig produced: configs, warnings, raised error
    navigations,  \* the navigations started so far, in start order
    entries,      \* every loader entry createLoaders has created, by id
    cache,        \* the loaders handed to the next createLoaders call
    fetches       \* the HTTP requests the built-in loader has issued

configVars == <<elements, rootElement, DEV, pc, compiled>>

loaderVars == <<navigations, entries, cache, fetches>>

vars == <<elements, rootElement, DEV, pc, compiled, navigations, entries, cache, fetches>>

(***************************************************************************)
(* Values                                                                  *)
(***************************************************************************)

\* A path prop. JS strings are modelled by their single segment and whether
\* a "#hash" follows it; an omitted prop is the JS value undefined.
PathUndefined == [defined |-> FALSE, seg |-> "", hash |-> FALSE]

Path(seg) == [defined |-> TRUE, seg |-> seg, hash |-> FALSE]

PathWithHash(seg) == [defined |-> TRUE, seg |-> seg, hash |-> TRUE]

\* A loader / action value: undefined, the literal true, a function or a
\* static value. Functions are compared by reference (name); the built-in
\* ones carry what their closure captured.
Undefined == [kind |-> "undefined", name |-> "", prefix |-> "", level |-> 0]

True == [kind |-> "true", name |-> "", prefix |-> "", level |-> 0]

Function(name) == [kind |-> "function", name |-> name, prefix |-> "", level |-> 0]

StaticValue(name) == [kind |-> "value", name |-> name, prefix |-> "", level |-> 0]

Truthy(v) == v.kind # "undefined"

Redirect == "Redirect"

Route == "Route"

TextNode == "text"

\* createConfigLoader(prefix, level): the returned closure.
createConfigLoader(prefix, level) ==
    [kind |-> "function", name |-> "createConfigLoader", prefix |-> prefix, level |-> level]

\* createConfigAction(prefix): the returned closure.
createConfigAction(prefix) ==
    [kind |-> "function", name |-> "createConfigAction", prefix |-> prefix, level |-> 0]

(***************************************************************************)
(* utilities/descriptor.js and utilities/path.js                           *)
(***************************************************************************)

ParamSegments == {":x", ":y"}

SplatSegment == "*"

\* descriptorScore(path): literal segments outrank parameters, which outrank
\* splats; an omitted path has no segment to score.
descriptorScore(path) ==
    IF ~path.defined THEN 0
    ELSE IF path.seg = SplatSegment THEN 1
    ELSE IF path.seg \in ParamSegments THEN 2
    ELSE 3

\* resolvePaths(base, path): an omitted path inherits the base unchanged.
resolvePaths(base, path) ==
    IF path.defined THEN Append(base, path.seg) ELSE base

joinPaths(base, seg) == Append(base, seg)

\* descriptorStructure(path): the matchable shape, parameter names dropped.
descriptorStructure(path) ==
    [i \in 1..Len(path) |-> IF path[i] \in ParamSegments THEN ":" ELSE path[i]]

equivalentDescriptors(a, b) == a = b

\* pathParts(path)[2]: the hash of a path, truthy when present.
pathPartsHash(path) == path.hash

\* childrenToArray(children)
childrenToArray(children) == children

(***************************************************************************)
(* utilities/config.js                                                     *)
(***************************************************************************)

\* The property key a path prop is converted to when indexing `scores`.
PropertyKey(path) ==
    IF path.defined THEN <<path.seg, path.hash>> ELSE <<"undefined", FALSE>>

RECURSIVE ScoresLoop(_, _, _, _)
\* for (let element of elements) if (scores[path] == undefined) scores[path] = ...
ScoresLoop(es, ids, i, scores) ==
    IF i > Len(ids) THEN scores
    ELSE LET path == es[ids[i]].path
             key == PropertyKey(path)
         IN  IF key \in DOMAIN scores
             THEN ScoresLoop(es, ids, i + 1, scores)
             ELSE ScoresLoop(es, ids, i + 1,
                      [k \in DOMAIN scores \cup {key} |->
                          IF k = key THEN descriptorScore(path) ELSE scores[k]])

\* The comparator handed to elements.sort.
CompareScores(scores, es, a, b) ==
    LET sa == scores[PropertyKey(es[a].path)]
        sb == scores[PropertyKey(es[b].path)]
    IN  IF sa < sb THEN 1 ELSE IF sa > sb THEN -1 ELSE 0

RECURSIVE InsertSorted(_, _, _, _, _)
\* x goes before the first element that must follow it (stable).
InsertSorted(scores, es, sorted, x, i) ==
    IF i > Len(sorted) THEN Append(sorted, x)
    ELSE IF CompareScores(scores, es, sorted[i], x) > 0
         THEN SubSeq(sorted, 1, i - 1) \o <<x>> \o SubSeq(sorted, i, Len(sorted))
         ELSE InsertSorted(scores, es, sorted, x, i + 1)

RECURSIVE StableSort(_, _, _, _, _)
StableSort(scores, es, ids, i, sorted) ==
    IF i > Len(ids) THEN sorted
    ELSE StableSort(scores, es, ids, i + 1, InsertSorted(scores, es, sorted, ids[i], 1))

sortElementsByDescriptorScore(es, ids) ==
    StableSort(ScoresLoop(es, ids, 1, <<>>), es, ids, 1, <<>>)

assertElementIsNotTextNode(element) == element.type = TextNode

assertElementRedirectHasNoLoader(element) ==
    Truthy(element.loader) /\ element.type = Redirect

assertElementRedirictHasNoChildren(element) ==
    Len(element.children) > 0 /\ element.type = Redirect

assertElementWithoutChildrenIsNotRoot(element) ==
    Len(element.children) > 0 /\ element.root

assertElementPathHasNoHash(element) ==
    element.path.defined /\ pathPartsHash(element.path)

\* The first assertion of assertNoElementWarnings that throws, or "".
assertNoElementWarnings(element) ==
    IF assertElementPathHasNoHash(element) THEN "assertElementPathHasNoHash"
    ELSE IF assertElementRedirectHasNoLoader(element) THEN "assertElementRedirectHasNoLoader"
    ELSE IF assertElementRedirictHasNoChildren(element) THEN "assertElementRedirictHasNoChildren"
    ELSE IF assertElementWithoutChildrenIsNotRoot(element) THEN "assertElementWithoutChildrenIsNotRoot"
    ELSE ""

\* The compilation state threaded through createConfigs: the `duplicates`
\* list, what configConsole.warn received, the error thrown (if any), and
\* the childless routes in the order the compiler reached them.
NoState == [duplicates |-> <<>>, warnings |-> <<>>, raised |-> <<>>, leaves |-> <<>>]

Warn(st, kind, id) ==
    [st EXCEPT !.warnings = Append(@, [kind |-> kind, element |-> id])]

Raise(st, kind, id) ==
    [st EXCEPT !.raised = <<[kind |-> kind, element |-> id]>>]

Raised(st) == st.raised # <<>>

RECURSIVE FilterErrors(_, _, _, _, _, _)
\* elements.filter(verifyNoElementErrors)
FilterErrors(es, dev, ids, i, valid, st) ==
    IF i > Len(ids) \/ Raised(st) THEN [valid |-> valid, st |-> st]
    ELSE IF assertElementIsNotTextNode(es[ids[i]])
         THEN IF dev
              THEN FilterErrors(es, dev, ids, i + 1, valid,
                       Warn(st, "assertElementIsNotTextNode", ids[i]))
              ELSE FilterErrors(es, dev, ids, i + 1, valid,
                       Raise(st, "assertElementIsNotTextNode", ids[i]))
         ELSE FilterErrors(es, dev, ids, i + 1, Append(valid, ids[i]), st)

RECURSIVE ForEachWarnings(_, _, _, _, _)
\* validElements.forEach(verifyNoElementWarnings)
ForEachWarnings(es, dev, ids, i, st) ==
    IF i > Len(ids) \/ Raised(st) THEN st
    ELSE LET kind == assertNoElementWarnings(es[ids[i]])
         IN  IF kind = "" THEN ForEachWarnings(es, dev, ids, i + 1, st)
             ELSE IF dev THEN ForEachWarnings(es, dev, ids, i + 1, Warn(st, kind, ids[i]))
             ELSE ForEachWarnings(es, dev, ids, i + 1, Raise(st, kind, ids[i]))

\* A find that looks at the most recently registered route only.
FindDuplicateLast(duplicates, structure) ==
    /\ Len(duplicates) > 0
    /\ equivalentDescriptors(duplicates[Len(duplicates)].structure, structure)

\* duplicates.find(duplicate => equivalentDescriptors(duplicate.structure, structure))
FindDuplicate(duplicates, structure) ==
    \E i \in 1..Len(duplicates) : equivalentDescriptors(duplicates[i].structure, structure)

\* The childless branch of the map callback (config.js 43-55).
RegisterDescriptor(dev, element, id, childBase, st) ==
    LET descriptorPath == IF ~element.path.defined
                          THEN joinPaths(childBase, SplatSegment) ELSE childBase
        structure == descriptorStructure(descriptorPath)
        seen == [st EXCEPT !.leaves = Append(@, [element |-> id, path |-> descriptorPath])]
    IN  IF FindDuplicate(st.duplicates, structure) /\ dev
        THEN Warn(seen, "duplicate", id)
        ELSE [seen EXCEPT !.duplicates = Append(@, [element |-> id, structure |-> structure])]

\* A map callback without the Redirect branch.
ConfigOfAnyType(element, id, loader, action, childConfigs) ==
    [element |-> id, type |-> element.type, path |-> element.path,
     root |-> element.root, status |-> element.status, loader |-> loader,
     action |-> action, children |-> childConfigs]

\* The object the map callback returns (config.js 58-63). `element` is the
\* identity of the raw element the config was compiled from.
ConfigOf(element, id, loader, action, childConfigs) ==
    IF element.type = Redirect
    THEN [element |-> id, type |-> element.type, path |-> element.path,
          to |-> element.to, status |-> element.status, action |-> action]
    ELSE [element |-> id, type |-> element.type, path |-> element.path,
          root |-> element.root, status |-> element.status, loader |-> loader,
          action |-> action, children |-> childConfigs]

RECURSIVE createConfigs(_, _, _, _, _, _, _)
RECURSIVE MapElements(_, _, _, _, _, _, _, _, _)

\* sortedElements.map(element => ...)
MapElements(es, dev, prefix, sorted, i, base, level, configs, st) ==
    IF i > Len(sorted) \/ Raised(st) THEN [configs |-> configs, st |-> st]
    ELSE LET id == sorted[i]
             element == es[id]
             action == IF element.action = True
                       THEN createConfigAction(prefix) ELSE element.action
             loader == IF element.loader = True
                       THEN createConfigLoader(prefix, level) ELSE element.loader
             childBase == resolvePaths(base, element.path)
             childrenArray == childrenToArray(element.children)
             child == IF Len(childrenArray) > 0
                      THEN createConfigs(es, dev, prefix, childrenArray, childBase, level + 1, st)
                      ELSE [configs |-> <<>>,
                            st |-> RegisterDescriptor(dev, element, id, childBase, st)]
         IN  MapElements(es, dev, prefix, sorted, i + 1, base, level,
                 Append(configs, ConfigOf(element, id, loader, action, child.configs)),
                 child.st)

createConfigs(es, dev, prefix, ids, base, level, st) ==
    LET filtered == FilterErrors(es, dev, ids, 1, <<>>, st)
        sortedElements == sortElementsByDescriptorScore(es, filtered.valid)
        warned == ForEachWarnings(es, dev, sortedElements, 1, filtered.st)
    IN  IF Raised(filtered.st) THEN [configs |-> <<>>, st |-> filtered.st]
        ELSE IF Raised(warned) THEN [configs |-> <<>>, st |-> warned]
        ELSE MapElements(es, dev, prefix, sortedElements, 1, base, level, <<>>, warned)

\* createConfig(rootElement, options): root = 0 is `rootElement == undefined`.
createConfig(es, root, dev, prefix) ==
    LET st0 == IF dev /\ root = 0 THEN Warn(NoState, "noRoutes", 0) ELSE NoState
        out == createConfigs(es, dev, prefix, IF root = 0 THEN <<>> ELSE <<root>>,
                             <<>>, 0, st0)
    IN  [configs  |-> IF Raised(out.st) THEN <<>> ELSE out.configs,
         warnings |-> out.st.warnings,
         raised   |-> out.st.raised,
         leaves   |-> out.st.leaves]

(***************************************************************************)
(* The application whose navigations are scheduled                         *)
(***************************************************************************)

Prefix == "/api"

NoProps == [type |-> Route, path |-> PathUndefined, root |-> FALSE, to |-> "",
            status |-> "", loader |-> Undefined, action |-> Undefined,
            children |-> <<>>]

\* <Route root> <Route path="users" loader={L1}>
\*     <Route path=":x" loader={L2}/> <Route path="settings" loader/>
\*     <Route path="about" loader={value}/> </Route> </Route>
AppElements ==
    <<[NoProps EXCEPT !.children = <<2>>],
      [NoProps EXCEPT !.path = Path("users"), !.loader = Function("L1"),
                      !.children = <<3, 4, 5>>],
      [NoProps EXCEPT !.path = Path(":x"), !.loader = Function("L2")],
      [NoProps EXCEPT !.path = Path("settings"), !.loader = True],
      [NoProps EXCEPT !.path = Path("about"), !.loader = StaticValue("about")]>>

AppConfig == createConfig(AppElements, 1, TRUE, Prefix).configs

(***************************************************************************)
(* utilities/match.js                                                      *)
(***************************************************************************)

RECURSIVE MatchConfigs(_, _, _)
\* The chain of matches of a pathname (a sequence of segments), root first:
\* at each level the first config, in compiled order, that consumes the
\* remaining path.
MatchConfigs(configs, segments, i) ==
    IF i > Len(configs) THEN <<>>
    ELSE LET config == configs[i]
             path == config.path
             consumes == \/ ~path.defined
                         \/ /\ Len(segments) > 0
                            /\ \/ path.seg = SplatSegment
                               \/ path.seg \in ParamSegments
                               \/ path.seg = Head(segments)
             rest == IF ~path.defined THEN segments
                     ELSE IF path.seg = SplatSegment THEN <<>> ELSE Tail(segments)
             match == [config |-> [element |-> config.element, loader |-> config.loader],
                       splat  |-> IF path.defined /\ path.seg = SplatSegment
                                  THEN segments ELSE <<>>,
                       params |-> IF path.defined /\ path.seg \in ParamSegments
                                  THEN <<<<path.seg, Head(segments)>>>> ELSE <<>>]
         IN  IF ~consumes THEN MatchConfigs(configs, segments, i + 1)
             ELSE IF config.type = Redirect \/ Len(config.children) = 0
                  THEN IF rest = <<>> THEN <<match>>
                       ELSE MatchConfigs(configs, segments, i + 1)
                  ELSE LET children == MatchConfigs(config.children, rest, 1)
                       IN  IF children = <<>> /\ rest # <<>>
                           THEN MatchConfigs(configs, segments, i + 1)
                           ELSE <<match>> \o children

\* isEquivalentMatch(a, b): the same route matched with the same variables.
isEquivalentMatch(a, b) ==
    /\ a.config.element = b.config.element
    /\ a.config.loader = b.config.loader
    /\ a.splat = b.splat
    /\ a.params = b.params

(***************************************************************************)
(* utilities/loaders.js                                                    *)
(***************************************************************************)

MaxNavigations == 3

\* The URLs navigated to: pathname (segments) and search.
Urls ==
    { [pathname |-> <<"users", "1">>, search |-> ""],
      [pathname |-> <<"users", "settings">>, search |-> "?q"],
      [pathname |-> <<"users", "about">>, search |-> ""] }

\* `loaders == undefined`: no cache was handed to createLoaders.
NoLoaders == [defined |-> FALSE, list |-> <<>>]

\* The entry object of loaders.js 25, right after createLoaderPromise() has
\* run up to `await action`. `request` names the navigation whose
\* render.request (url, signal) the closure captured; `called` and
\* `context` record the call of the loader function, `loaded` the promise
\* the loader returned.
NewEntry(match, request) ==
    [dirty |-> FALSE, match |-> match, promise |-> "awaitAction",
     controller |-> [aborted |-> FALSE], request |-> request,
     called |-> 0, context |-> <<>>, loaded |-> "none"]

\* A find without the `!loader.dirty` test.
FindLoaderDirtyToo(loaders, es, match) ==
    LET hits == { i \in 1..Len(loaders.list) :
                    isEquivalentMatch(match, es[loaders.list[i]].match) }
    IN  IF ~loaders.defined \/ hits = {} THEN 0
        ELSE loaders.list[CHOOSE i \in hits : \A j \in hits : i <= j]

\* A find that reuses settled loaders only.
FindLoaderSettledOnly(loaders, es, match) ==
    LET hits == { i \in 1..Len(loaders.list) :
                    /\ ~es[loaders.list[i]].dirty
                    /\ es[loaders.list[i]].promise \in {"resolved", "rejected"}
                    /\ isEquivalentMatch(match, es[loaders.list[i]].match) }
    IN  IF ~loaders.defined \/ hits = {} THEN 0
        ELSE loaders.list[CHOOSE i \in hits : \A j \in hits : i <= j]

\* loaders?.find(loader => !loader.dirty && isEquivalentMatch(match, loader.match)):
\* the index in `entries` of the first such loader, 0 when there is none.
FindLoader(loaders, es, match) ==
    LET hits == { i \in 1..Len(loaders.list) :
                    /\ ~es[loaders.list[i]].dirty
                    /\ isEquivalentMatch(match, es[loaders.list[i]].match) }
    IN  IF ~loaders.defined \/ hits = {} THEN 0
        ELSE loaders.list[CHOOSE i \in hits : \A j \in hits : i <= j]

RECURSIVE WalkMatched(_, _, _, _, _, _)
\* The while loop of createLoaders over the matched chain: `results` are
\* entry ids, `es` the entries with the newly created ones appended.
WalkMatched(chain, i, request, loaders, es, results) ==
    IF i > Len(chain) THEN [results |-> results, entries |-> es]
    ELSE LET match == chain[i]
             found == FindLoader(loaders, es, match)
         IN  IF ~Truthy(match.config.loader)
             THEN WalkMatched(chain, i + 1, request, loaders, es, results)
             ELSE IF found # 0
                  THEN WalkMatched(chain, i + 1, request, loaders, es,
                           Append(results, found))
                  ELSE WalkMatched(chain, i + 1, request, loaders,
                           Append(es, NewEntry(match, request)),
                           Append(results, Len(es) + 1))

\* createLoaders(render, { loaders, action }) called by navigation `request`.
createLoaders(chain, request, loaders, es) ==
    WalkMatched(chain, 1, request, loaders, es, <<>>)

\* The context object createLoaderPromise passes to a loader function.
LoaderContext(entry, url) ==
    [url |-> url, splat |-> entry.match.splat, params |-> entry.match.params,
     signal |-> entry.request]

\* The body of the built-in loader (config.js 180-187) up to its first
\* await: `request` is read from the context, and request.url of an absent
\* request throws.
BuiltinLoaderCall(loader, context) ==
    IF "request" \in DOMAIN context
    THEN [threw |-> FALSE,
          fetch |-> {[method |-> "GET",
                      url |-> <<loader.prefix, context.request.url.pathname,
                                context.request.url.search>>,
                      accept |-> "application/json", range |-> loader.level]}]
    ELSE [threw |-> TRUE, fetch |-> {}]

ActionSettled(n) == navigations[n].action # "pending"

Settled(e) == entries[e].promise \in {"resolved", "rejected"}

(***************************************************************************)
(* Navigation steps                                                        *)
(***************************************************************************)

\* A navigation starts: its request and (optional) action promise exist and
\* createLoaders runs synchronously; the created entries join the cache.
Navigate(url, withAction) ==
    /\ Len(navigations) < MaxNavigations
    /\ LET n == Len(navigations) + 1
           chain == MatchConfigs(AppConfig, url.pathname, 1)
           out == createLoaders(chain, n, cache, entries)
       IN  /\ entries' = out.entries
           /\ navigations' = Append(navigations,
                  [url |-> url,
                   action |-> IF withAction THEN "pending" ELSE "none",
                   signal |-> [aborted |-> FALSE],
                   prior |-> Len(entries), loaders |-> out.results])
           /\ cache' = [defined |-> TRUE,
                        list |-> cache.list \o
                            [i \in 1..(Len(out.entries) - Len(entries)) |-> Len(entries) + i]]
    /\ UNCHANGED <<fetches, configVars>>

\* Whether navigation n still waits for its action or one of its loaders.
Pending(n) ==
    /\ ~navigations[n].signal.aborted
    /\ navigations[n].action # "rejected"
    /\ \/ navigations[n].action = "pending"
       \/ \E i \in 1..Len(navigations[n].loaders) : ~Settled(navigations[n].loaders[i])

\* The action of navigation n succeeds; when the submission asks for it, the
\* resources that were in the cache before n are marked dirty.
ActionFulfil(n, invalidate) ==
    /\ navigations[n].action = "pending"
    /\ navigations' = [navigations EXCEPT ![n].action = "fulfilled"]
    /\ entries' = [e \in DOMAIN entries |->
                      IF invalidate /\ e <= navigations[n].prior
                      THEN [entries[e] EXCEPT !.dirty = TRUE]
                      ELSE entries[e]]
    /\ UNCHANGED <<cache, fetches, configVars>>

\* The action of navigation n fails.
ActionReject(n) ==
    /\ navigations[n].action = "pending"
    /\ navigations' = [navigations EXCEPT ![n].action = "rejected"]
    /\ UNCHANGED <<entries, cache, fetches, configVars>>

\* createLoaderPromise without `await action`.
CanResumeUnawaited(e) == entries[e].promise = "awaitAction"

\* createLoaderPromise awaiting the loaders created before it as well.
CanResumeInTurn(e) ==
    /\ entries[e].promise = "awaitAction"
    /\ ActionSettled(entries[e].request)
    /\ \A f \in 1..(e - 1) :
           entries[f].request = entries[e].request => Settled(f)

\* Whether createLoaderPromise of entry e can continue past `await action`.
CanResume(e) ==
    /\ entries[e].promise = "awaitAction"
    /\ ActionSettled(entries[e].request)

\* createLoaderPromise continues after `await action` (loaders.js 28-38).
Resume(e) ==
    /\ CanResume(e)
    /\ LET entry == entries[e]
           loader == entry.match.config.loader
           context == LoaderContext(entry, navigations[entry.request].url)
           call == BuiltinLoaderCall(loader, context)
       IN  IF navigations[entry.request].action = "rejected"
           THEN /\ entries' = [entries EXCEPT ![e].promise = "rejected"]
                /\ UNCHANGED fetches
           ELSE IF loader.kind = "function"
           THEN /\ entries' = [entries EXCEPT
                      ![e].promise = "awaitLoader",
                      ![e].called = @ + 1,
                      ![e].context = <<context>>,
                      ![e].loaded = IF loader.name = "createConfigLoader" /\ call.threw
                                    THEN "threw" ELSE "pending"]
                /\ fetches' = IF loader.name = "createConfigLoader"
                              THEN fetches \cup call.fetch ELSE fetches
           ELSE /\ entries' = [entries EXCEPT ![e].promise = "awaitLoader",
                                              ![e].loaded = "value"]
                /\ UNCHANGED fetches
    /\ UNCHANGED <<navigations, cache, configVars>>

\* `await loader(...)` / `await loader` completes: the loader's promise
\* fulfils (a Response goes through createData) or rejects.
Fulfil(e) ==
    /\ entries[e].promise = "awaitLoader"
    /\ entries[e].loaded \in {"pending", "value"}
    /\ entries' = [entries EXCEPT ![e].promise = "resolved"]
    /\ UNCHANGED <<navigations, cache, fetches, configVars>>

Reject(e) ==
    /\ entries[e].promise = "awaitLoader"
    /\ entries[e].loaded \in {"pending", "threw"}
    /\ entries' = [entries EXCEPT ![e].promise = "rejected"]
    /\ UNCHANGED <<navigations, cache, fetches, configVars>>

\* The request signal of a pending navigation n is aborted: the 'abort'
\* listener that createLoaders registered for each entry it created aborts
\* the entry's controller (loaders.js 23).
Abort(n) ==
    /\ Pending(n)
    /\ navigations' = [navigations EXCEPT ![n].signal = [aborted |-> TRUE]]
    /\ entries' = [e \in DOMAIN entries |->
                      IF entries[e].request = n
                      THEN [entries[e] EXCEPT !.controller = [aborted |-> TRUE]]
                      ELSE entries[e]]
    /\ UNCHANGED <<cache, fetches, configVars>>

\* The compiler is not running: the application's tree was compiled to
\* AppConfig before the first navigation.
ConfigIdle ==
    /\ elements = <<>>
    /\ rootElement = 0
    /\ DEV = TRUE
    /\ pc = "done"
    /\ compiled = [configs |-> <<>>, warnings |-> <<>>, raised |-> <<>>, leaves |-> <<>>]

Init ==
    /\ ConfigIdle
    /\ navigations = <<>>
    /\ entries = <<>>
    /\ cache = NoLoaders
    /\ fetches = {}

Next ==
    \/ \E url \in Urls, withAction \in BOOLEAN : Navigate(url, withAction)
    \/ \E n \in DOMAIN navigations, invalidate \in BOOLEAN : ActionFulfil(n, invalidate)
    \/ \E n \in DOMAIN navigations : ActionReject(n)
    \/ \E e \in DOMAIN entries : Resume(e)
    \/ \E e \in DOMAIN entries : Fulfil(e)
    \/ \E e \in DOMAIN entries : Reject(e)
    \/ \E n \in DOMAIN navigations : Abort(n)

Spec == Init /\ [][Next]_vars

(***************************************************************************)
(* Compiling a raw route tree                                              *)
(***************************************************************************)

\* The shapes of the raw trees compiled: the children of elements 1..4.
Shapes ==
    { << <<2, 3, 4>>, <<>>, <<>>, <<>> >>,
      << <<2, 3>>, <<4>>, <<>>, <<>> >>,
      << <<2>>, <<3, 4>>, <<>>, <<>> >>,
      << <<2>>, <<3>>, <<4>>, <<>> >> }

RouteProps(path) == [NoProps EXCEPT !.path = path]

RedirectProps(path) == [NoProps EXCEPT !.type = Redirect, !.path = path, !.to = "/new"]

\* The elements a raw tree is built from (children are given by the shape).
ElementProps ==
    { RouteProps(Path("a")), RouteProps(Path(":x")), RouteProps(Path(":y")),
      RouteProps(Path("*")), RouteProps(PathUndefined), RouteProps(Path("undefined")),
      RouteProps(PathWithHash("a")),
      [RouteProps(Path("a")) EXCEPT !.root = TRUE],
      [RouteProps(Path("b")) EXCEPT !.loader = True, !.action = True],
      RedirectProps(Path("a")),
      [RedirectProps(Path(":x")) EXCEPT !.action = Function("A")],
      [RedirectProps(Path("b")) EXCEPT !.loader = Function("L"), !.action = True],
      [NoProps EXCEPT !.type = TextNode] }

RootProps ==
    { RouteProps(PathUndefined),
      [RouteProps(PathUndefined) EXCEPT !.root = TRUE],
      RedirectProps(Path("a")),
      [NoProps EXCEPT !.type = TextNode] }

NotCompiled == [configs |-> <<>>, warnings |-> <<>>, raised |-> <<>>, leaves |-> <<>>]

LoadersIdle ==
    /\ navigations = <<>>
    /\ entries = <<>>
    /\ cache = NoLoaders
    /\ fetches = {}

InitConfig ==
    /\ LoadersIdle
    /\ DEV \in BOOLEAN
    /\ pc = "ready"
    /\ compiled = NotCompiled
    /\ \/ /\ rootElement = 0
          /\ elements = <<>>
       \/ /\ rootElement = 1
          /\ \E shape \in Shapes, root \in RootProps, props \in [2..4 -> ElementProps] :
                elements = [id \in 1..4 |->
                    LET p == IF id = 1 THEN root ELSE props[id]
                    IN  [p EXCEPT !.children = IF p.type = TextNode THEN <<>> ELSE shape[id]]]

\* createConfig(rootElement, { prefix }) runs.
Compile ==
    /\ pc = "ready"
    /\ pc' = "done"
    /\ compiled' = createConfig(elements, rootElement, DEV, Prefix)
    /\ UNCHANGED <<elements, rootElement, DEV, loaderVars>>

NextConfig == Compile

SpecConfig == InitConfig /\ [][NextConfig]_vars

(***************************************************************************)
(* Properties of the compiled tree                                         *)
(***************************************************************************)

Range(seq) == {seq[i] : i \in 1..Len(seq)}

RECURSIVE SiblingLists(_)
\* Every list of sibling configs of a compiled tree.
SiblingLists(configs) ==
    {configs} \cup UNION { SiblingLists(configs[i].children) :
                             i \in {j \in 1..Len(configs) : "children" \in DOMAIN configs[j]} }

AllConfigs(configs) == UNION { Range(list) : list \in SiblingLists(configs) }

InOutput(id) == \E c \in AllConfigs(compiled.configs) : c.element = id

\* The raw element of tree es whose children hold id, 0 for the root.
ParentIn(es, id) ==
    LET parents == {p \in DOMAIN es : id \in Range(es[p].children)}
    IN  IF parents = {} THEN 0 ELSE CHOOSE p \in parents : TRUE

RECURSIVE AncestorsIn(_, _)
AncestorsIn(es, id) ==
    IF ParentIn(es, id) = 0 THEN {}
    ELSE {ParentIn(es, id)} \cup AncestorsIn(es, ParentIn(es, id))

ParentOf(id) == ParentIn(elements, id)

Ancestors(id) == AncestorsIn(elements, id)

Reachable(id) == rootElement # 0 /\ (id = rootElement \/ rootElement \in Ancestors(id))

UnderRedirect(id) == \E a \in Ancestors(id) : elements[a].type = Redirect

\* The position of an element among the children it was declared in.
Position(id) ==
    IF ParentOf(id) = 0 THEN 1
    ELSE CHOOSE i \in 1..Len(elements[ParentOf(id)].children) :
             elements[ParentOf(id)].children[i] = id

HasNo(config, key) == key \notin DOMAIN config \/ ~Truthy(config[key])

Reported(kind, id) ==
    \/ [kind |-> kind, element |-> id] \in Range(compiled.warnings)
    \/ [kind |-> kind, element |-> id] \in Range(compiled.raised)

\* The compiler looked at element id: it is a route of the tree and no
\* error raised for another element ended the compilation.
Visited(id) ==
    /\ Reachable(id)
    /\ elements[id].type # TextNode
    /\ compiled.raised = <<>> \/ compiled.raised[1].element = id

\* C6: at every level of the compiled tree the sibling configs are in
\* non-increasing order of the descriptor score of their path, and siblings
\* of equal score keep their declaration order.
C6_SiblingsSortedByScore ==
    pc = "done" =>
        \A list \in SiblingLists(compiled.configs) :
            \A i, j \in 1..Len(list) :
                i < j =>
                    /\ descriptorScore(list[i].path) >= descriptorScore(list[j].path)
                    /\ descriptorScore(list[i].path) = descriptorScore(list[j].path)
                           => Position(list[i].element) < Position(list[j].element)

LeafEquivalent(a, b) ==
    equivalentDescriptors(descriptorStructure(a.path), descriptorStructure(b.path))

CollidesWithEarlier(k) ==
    \E j \in 1..(k - 1) : LeafEquivalent(compiled.leaves[j], compiled.leaves[k])

C8_RootReportedIffChildless ==
    pc = "done" =>
        \A id \in DOMAIN elements :
            (Visited(id) /\ elements[id].root) =>
                (Reported("assertElementWithoutChildrenIsNotRoot", id)
                     <=> Len(elements[id].children) = 0)

RedirectConfigs == {c \in AllConfigs(compiled.configs) : c.type = Redirect}

ActionOf(e) == navigations[entries[e].request].action

IsFunction(e) == entries[e].match.config.loader.kind = "function"

\* C1: a loader function is invoked only after the action promise of the
\* navigation that created its entry has fulfilled (or there is none), and
\* when that action rejects no loader of the navigation is invoked.
C1_ActionPrecedesLoaders ==
    \A e \in DOMAIN entries :
        /\ entries[e].called > 0 => ActionOf(e) \in {"none", "fulfilled"}
        /\ ActionOf(e) = "rejected" => entries[e].called = 0

\* One loader was invoked after its action fulfilled, another was
\* short-circuited by its rejected action.
C1_Witness ==
    \E e, f \in DOMAIN entries :
        /\ entries[e].called > 0
        /\ ActionOf(e) = "fulfilled"
        /\ ActionOf(f) = "rejected"
        /\ entries[f].promise = "rejected"

\* The matches of a URL whose route declares a loader.
LoaderMatches(url) ==
    SelectSeq(MatchConfigs(AppConfig, url.pathname, 1),
              LAMBDA m : Truthy(m.config.loader))

Reusable(match) ==
    /\ cache.defined
    /\ \E k \in Range(cache.list) :
          ~entries[k].dirty /\ isEquivalentMatch(match, entries[k].match)

\* The step in which navigation n starts.
Starts(n) == Len(navigations) = n - 1 /\ Len(navigations') = n

\* C2: createLoaders reuses a cache entry (the same entry, no new loader
\* invocation) exactly when the cache holds a non-dirty entry whose match is
\* equivalent; so two entries for equivalent matches exist only when the
\* earlier one is dirty, and no entry's loader is invoked twice.
C2_ReuseIffCleanEquivalent ==
    /\ [](\A e, f \in DOMAIN entries :
              /\ entries[e].called <= 1
              /\ (e < f /\ isEquivalentMatch(entries[e].match, entries[f].match))
                     => entries[e].dirty)
    /\ [][\A n \in 1..MaxNavigations : Starts(n) =>
              LET nav == navigations'[n]
                  chain == LoaderMatches(nav.url)
              IN  /\ Len(nav.loaders) = Len(chain)
                  /\ \A i \in 1..Len(chain) :
                        LET r == nav.loaders[i]
                        IN  /\ r <= Len(entries) <=> Reusable(chain[i])
                            /\ r <= Len(entries) =>
                                   /\ entries'[r] = entries[r]
                                   /\ ~entries[r].dirty
                                   /\ isEquivalentMatch(chain[i], entries[r].match)
                            /\ r > Len(entries) =>
                                   /\ entries'[r].match = chain[i]
                                   /\ entries'[r].promise = "awaitAction"
                                   /\ ~entries'[r].dirty]_vars

\* A navigation reused another navigation's entry, and a dirty entry was
\* replaced by a new one for an equivalent match.
C2_Witness ==
    /\ \E n \in DOMAIN navigations, i \in 1..3 :
          /\ i <= Len(navigations[n].loaders)
          /\ navigations[n].loaders[i] <= navigations[n].prior
    /\ \E e, f \in DOMAIN entries :
          /\ e < f
          /\ isEquivalentMatch(entries[e].match, entries[f].match)
          /\ entries[e].dirty
          /\ entries[e].called = 1
          /\ entries[f].called = 1

\* C3: the loaders of one chain run concurrently and fail independently: a
\* loader is invoked as soon as the action has settled and can settle as
\* soon as it was invoked, whatever the state of the other loaders, and the
\* rejection of one leaves every other entry as it was.
C3_LoadersIndependent ==
    /\ [](\A e \in DOMAIN entries :
              /\ (entries[e].promise = "awaitAction" /\ ActionOf(e) # "pending")
                     => ENABLED Resume(e)
              /\ entries[e].promise = "awaitLoader"
                     => ENABLED (Fulfil(e) \/ Reject(e)))
    /\ [][\A e \in DOMAIN entries :
              (entries[e].promise # "rejected" /\ entries'[e].promise = "rejected")
                  => \A f \in DOMAIN entries : f # e => entries'[f] = entries[f]]_vars

\* In one chain the ancestor's loader has rejected and the descendant's has
\* fulfilled; in another the descendant's has fulfilled while the ancestor's
\* is still pending.
C3_Witness ==
    \E e, g \in DOMAIN entries :
        /\ e + 1 \in DOMAIN entries /\ g + 1 \in DOMAIN entries
        /\ entries[e].request = entries[e + 1].request
        /\ entries[g].request = entries[g + 1].request
        /\ entries[e].called = 1 /\ entries[e].promise = "rejected"
        /\ entries[e + 1].called = 1 /\ entries[e + 1].promise = "resolved"
        /\ entries[g].called = 1 /\ entries[g].promise = "awaitLoader"
        /\ entries[g + 1].called = 1 /\ entries[g + 1].promise = "resolved"

\* C4: the controller of a resource, and the signal handed to its loader,
\* are aborted only when no pending navigation depends on the resource.
C4_CancelledOnlyWhenUnused ==
    \A e \in DOMAIN entries :
        (\/ entries[e].controller.aborted
         \/ /\ entries[e].called > 0
            /\ navigations[entries[e].context[1].signal].signal.aborted)
            => ~\E n \in DOMAIN navigations :
                   Pending(n) /\ e \in Range(navigations[n].loaders)

\* C5: a navigation that starts while an earlier navigation's entry for an
\* equivalent match is pending (and not dirty) reuses that entry and creates
\* none for the match; the loader function of an entry is invoked exactly
\* once, when its promise passes the action.
C5_NoDuplicateFetch ==
    /\ [](\A e \in DOMAIN entries :
              IsFunction(e) =>
                  entries[e].called =
                      IF entries[e].promise = "awaitAction" \/ ActionOf(e) = "rejected"
                      THEN 0 ELSE 1)
    /\ [][\A n \in 1..MaxNavigations : Starts(n) =>
              \A e \in DOMAIN entries :
                  (/\ ~Settled(e)
                   /\ ~entries[e].dirty
                   /\ \E m \in Range(LoaderMatches(navigations'[n].url)) :
                          isEquivalentMatch(m, entries[e].match))
                      => /\ e \in Range(navigations'[n].loaders)
                         /\ entries'[e] = entries[e]
                         /\ \A f \in DOMAIN entries' \ DOMAIN entries :
                                ~isEquivalentMatch(entries'[f].match, entries[e].match)]_vars

\* Two navigations share an entry that the first created and that has not
\* settled.
C5_Witness ==
    \E a, b \in DOMAIN navigations, e \in DOMAIN entries :
        /\ a < b
        /\ entries[e].request = a
        /\ e \in Range(navigations[a].loaders)
        /\ e \in Range(navigations[b].loaders)
        /\ ~Settled(e)
        /\ ~entries[e].dirty

\* C10: when the built-in loader of a route declared with loader = true at
\* depth d is invoked for a navigation to u, it issues a GET to
\* prefix + u.pathname + u.search with the header Range: route=d.
C10_BuiltinLoaderFetches ==
    \A e \in DOMAIN entries :
        (entries[e].match.config.loader.name = "createConfigLoader" /\ entries[e].called > 0)
            => LET u == navigations[entries[e].request].url
               IN  [method |-> "GET",
                    url |-> <<Prefix, u.pathname, u.search>>,
                    accept |-> "application/json",
                    range |-> Cardinality(AncestorsIn(AppElements, entries[e].match.config.element))]
                       \in fetches

====
